---- MODULE Spec2Model ----
(***************************************************************************)
(* A model of slmsuite/holography/analysis.py: the region sampler take,    *)
(* the moment engine (image_moment and the functions derived from it),     *)
(* image_ellipticity, image_fit, blob_detect and the control flow of       *)
(* blob_array_detect.                                                      *)
(*                                                                         *)
(* Numbers.  A real value is a reduced fraction [n |-> num, d |-> den]     *)
(* with den > 0; numpy's not-a-number is the value with den = 0.           *)
(* Coordinates handed to take are floats: the model keeps the multiples    *)
(* of 1/2 and stores them doubled ("half units").                          *)
(*                                                                         *)
(* Arrays.  A numpy array is [shape |-> <<...>>, data |-> <<...>>] with    *)
(* the elements in row-major (C) order, as numpy stores and ravels them.   *)
(***************************************************************************)
EXTENDS Integers, Sequences, FiniteSets, TLC

VARIABLES
    pc,      \* position of the call: "call", "done", or a step of blob_array_detect
    args,    \* the arguments of the call
    ret,     \* what the call produced: its fault, and the value it returned
    locals   \* the local variables of a running blob_array_detect call

vars == <<pc, args, ret, locals>>

(***************************************************************************)
(* Arithmetic                                                              *)
(***************************************************************************)
Abs(a) == IF a < 0 THEN -a ELSE a

RECURSIVE GCD(_, _)
GCD(a, b) == IF b = 0 THEN a ELSE GCD(b, a % b)

NaN == [n |-> 0, d |-> 0]

IsNaN(v) == v.d = 0

\* The reduced fraction num/den; den = 0 gives not-a-number.
Frac(num, den) ==
    IF den = 0 THEN NaN
    ELSE LET g == GCD(Abs(num), Abs(den))
             s == IF den < 0 THEN -1 ELSE 1
         IN  [n |-> s * (num \div g), d |-> s * (den \div g)]

Num(a) == [n |-> a, d |-> 1]

\* IEEE addition and multiplication: not-a-number propagates.
RAdd(a, b) == IF IsNaN(a) \/ IsNaN(b) THEN NaN
              ELSE Frac(a.n * b.d + b.n * a.d, a.d * b.d)

RMul(a, b) == IF IsNaN(a) \/ IsNaN(b) THEN NaN
              ELSE Frac(a.n * b.n, a.d * b.d)

RECURSIVE Pow(_, _)
Pow(a, e) == IF e = 0 THEN 1 ELSE a * Pow(a, e - 1)

RECURSIVE Prod(_)
Prod(s) == IF s = <<>> THEN 1 ELSE Head(s) * Prod(Tail(s))

\* float -> int conversion of the value v2/2: truncation towards zero.
TruncHalf(v2) == IF v2 >= 0 THEN v2 \div 2 ELSE -((-v2) \div 2)

(***************************************************************************)
(* numpy arrays                                                            *)
(***************************************************************************)
Array(shape, data) == [shape |-> shape, data |-> data]

NoArray == Array(<<0>>, <<>>)

RECURSIVE SumSeq(_)
SumSeq(s) == IF s = <<>> THEN Num(0) ELSE RAdd(Head(s), SumSeq(Tail(s)))

\* numpy.sum(a, axis=-1): the last axis is summed away.
SumLastAxis(a) ==
    LET r == Len(a.shape)
        m == a.shape[r]
        outer == Len(a.data) \div m
    IN  Array(SubSeq(a.shape, 1, r - 1),
              [q \in 1..outer |-> SumSeq(SubSeq(a.data, (q - 1) * m + 1, q * m))])

\* numpy.reshape: the same elements under a new shape; the sizes must agree.
CanReshape(a, shape) == Prod(shape) = Len(a.data)

Reshape(a, shape) == Array(shape, a.data)

\* One index of one axis of length dim: numpy counts a negative index from the
\* end, and faults only outside [-dim, dim).
IndexOk(i, dim) == -dim <= i /\ i < dim

WrapIndex(i, dim) == IF i < 0 THEN i + dim ELSE i

(***************************************************************************)
(* take                                                                    *)
(***************************************************************************)
\* size : int or (int, int), here <<w>> or <<w, h>>.
take_size(size) == IF Len(size) = 1 THEN <<size[1], size[1]>> ELSE size

\* A variant that centres the window with the half size rounded up.
take_edge_ceil(sz, centered) ==
    [i \in 1..sz |-> (i - 1) - (IF centered THEN (sz + 1) \div 2 ELSE 0)]

\* edge_x, edge_y: the offsets of a window of sz pixels.
take_edge(sz, centered) ==
    [i \in 1..sz |-> (i - 1) - (IF centered THEN sz \div 2 ELSE 0)]

\* region_x, region_y = np.meshgrid(edge_x, edge_y), ravelled: pixel (j, i) of
\* the window is element j * w + i.
region_x(size, centered) ==
    LET w == size[1]
        h == size[2]
    IN  [p \in 1..(w * h) |-> take_edge(w, centered)[((p - 1) % w) + 1]]

region_y(size, centered) ==
    LET w == size[1]
        h == size[2]
    IN  [p \in 1..(w * h) |-> take_edge(h, centered)[((p - 1) \div w) + 1]]

\* format_2vectors (slmsuite.holography.toolbox): a list of K points becomes
\* the canonical 2 x K layout, the row of the x and the row of the y.
format_2vectors(points) ==
    << [k \in 1..Len(points) |-> points[k][1]],
       [k \in 1..Len(points) |-> points[k][2]] >>

\* integration_x[k][p], integration_y[k][p]: the pixel index of element p of the
\* region of vector k, converted to an integer; vectors is the 2 x K layout.
integration_x(vectors, size, centered) ==
    [k \in 1..Len(vectors[1]) |->
        [p \in 1..(size[1] * size[2]) |->
            TruncHalf(vectors[1][k] + 2 * region_x(size, centered)[p])]]

integration_y(vectors, size, centered) ==
    [k \in 1..Len(vectors[2]) |->
        [p \in 1..(size[1] * size[2]) |->
            TruncHalf(vectors[2][k] + 2 * region_y(size, centered)[p])]]

\* A variant whose upper comparisons are off by one.
take_mask_open(ix, iy, imw, imh) ==
    [k \in 1..Len(ix) |->
        [p \in 1..Len(ix[k]) |->
            \/ ix[k][p] < 0
            \/ ix[k][p] > imw
            \/ iy[k][p] < 0
            \/ iy[k][p] > imh]]

\* mask: the indices that lie outside the image of width imw and height imh.
take_mask(ix, iy, imw, imh) ==
    [k \in 1..Len(ix) |->
        [p \in 1..Len(ix[k]) |->
            \/ ix[k][p] < 0
            \/ ix[k][p] >= imw
            \/ iy[k][p] < 0
            \/ iy[k][p] >= imh]]

\* np.clip(index, 0, dim - 1)
np_clip(i, lo, hi) == IF i < lo THEN lo ELSE IF i > hi THEN hi ELSE i

clip_indices(ix, dim) ==
    [k \in 1..Len(ix) |-> [p \in 1..Len(ix[k]) |-> np_clip(ix[k][p], 0, dim - 1)]]

\* Whether images[..., integration_y, integration_x] raises IndexError.
take_index_fault(ix, iy, imw, imh) ==
    \E k \in 1..Len(ix) : \E p \in 1..Len(ix[k]) :
        ~IndexOk(ix[k][p], imw) \/ ~IndexOk(iy[k][p], imh)

\* result = images[np.newaxis, integration_y, integration_x] for one image, and
\* images[:, integration_y, integration_x] for a stack: shape (N, K, w*h).
\* images.data is the stack of images, pixel (y, x) of image n at
\* (n * imh + y) * imw + x.
take_gather(images, ix, iy) ==
    LET r   == Len(images.shape)
        imw == images.shape[r]
        imh == images.shape[r - 1]
        N   == IF r = 2 THEN 1 ELSE images.shape[1]
        K   == Len(ix)
        P   == Len(ix[1])
    IN  Array(<<N, K, P>>,
              [q \in 1..(N * K * P) |->
                  LET n == (q - 1) \div (K * P)
                      k == (((q - 1) \div P) % K) + 1
                      p == ((q - 1) % P) + 1
                      y == WrapIndex(iy[k][p], imh)
                      x == WrapIndex(ix[k][p], imw)
                  IN  images.data[(n * imh + y) * imw + x + 1]])

\* result[:, mask] = np.nan, or 0 when the element type cannot hold it.
take_marker(dtype) == IF dtype = "float" THEN NaN ELSE Num(0)

take_set_mask(result, mask, dtype) ==
    LET K == result.shape[2]
        P == result.shape[3]
    IN  Array(result.shape,
              [q \in 1..Len(result.data) |->
                  IF mask[(((q - 1) \div P) % K) + 1][((q - 1) % P) + 1]
                  THEN take_marker(dtype)
                  ELSE result.data[q]])

\* The whole of take(images, vectors, size, centered, integrate, clip), plot=False.
\* fault: "none", or the exception that left the function; result: the sampled
\* array before integration or reshaping; value: the array returned.
take(images, dtype, points, sizeArg, centered, integrate, clip) ==
    LET size == take_size(sizeArg)
        vectors == format_2vectors(points)
        r    == Len(images.shape)
        imw  == images.shape[r]
        imh  == images.shape[r - 1]
        rawx == integration_x(vectors, size, centered)
        rawy == integration_y(vectors, size, centered)
        mask == take_mask(rawx, rawy, imw, imh)
        ix   == IF clip THEN clip_indices(rawx, imw) ELSE rawx
        iy   == IF clip THEN clip_indices(rawy, imh) ELSE rawy
        out  == <<Len(vectors[1]), size[2], size[1]>>
    IN  IF take_index_fault(ix, iy, imw, imh)
        THEN [fault |-> "IndexError", result |-> NoArray, value |-> NoArray]
        ELSE LET got    == take_gather(images, ix, iy)
                 result == IF clip THEN take_set_mask(got, mask, dtype) ELSE got
             IN  IF integrate
                 THEN [fault |-> "none", result |-> result,
                       value |-> SumLastAxis(result)]
                 ELSE IF CanReshape(result, out)
                 THEN [fault |-> "none", result |-> result,
                       value |-> Reshape(result, out)]
                 ELSE [fault |-> "ValueError", result |-> result,
                       value |-> NoArray]

(***************************************************************************)
(* The calls of take that are explored                                     *)
(***************************************************************************)
ImgW == 4
ImgH == 3
MaxSize == 3

\* An image whose pixels all differ: pixel (y, x) of image n.
RampPixel(n, y, x) == Num(1 + x + ImgW * y + ImgW * ImgH * n)

RampImages(shape) ==
    Array(shape, [q \in 1..Prod(shape) |->
                     RampPixel((q - 1) \div (ImgW * ImgH),
                               ((q - 1) \div ImgW) % ImgH,
                               (q - 1) % ImgW)])

\* A zero image with a single unit impulse at (x0, y0).
ImpulseImage(x0, y0) ==
    Array(<<ImgH, ImgW>>,
          [q \in 1..(ImgW * ImgH) |->
              IF (q - 1) % ImgW = x0 /\ (q - 1) \div ImgW = y0
              THEN Num(1) ELSE Num(0)])

TakeImages ==
    {[images |-> RampImages(<<ImgH, ImgW>>), dtype |-> t, impulse |-> <<>>] :
        t \in {"float", "int"}}
    \cup {[images |-> RampImages(<<n, ImgH, ImgW>>), dtype |-> "float",
           impulse |-> <<>>] : n \in 1..2}
    \cup {[images |-> ImpulseImage(x0, 1), dtype |-> "float",
           impulse |-> <<x0, 1>>] : x0 \in 0..(ImgW - 1)}

\* Coordinates in half units: every multiple of 1/2 from -1 to the image size,
\* and the whole numbers beyond, down to where a negative index stops wrapping.
XCoords == (-3..(2 * ImgW + 1)) \cup {-2 * (ImgW + 1), -2 * ImgW, 2 * ImgW + 2}
YCoords == {-2 * (ImgH + 1), -2, 0, 1, 2, 3, 2 * ImgH - 2, 2 * ImgH}

SecondVector == <<2, 2>>

TakeVectors ==
    {<<<<x, y>>>> : x \in XCoords, y \in YCoords}
    \cup {<<<<x, 2>>, SecondVector>> : x \in XCoords}

TakeSizes ==
    {<<w>> : w \in 1..MaxSize} \cup {<<w, h>> : w \in 1..MaxSize, h \in 1..MaxSize}

TakeArgs ==
    [fn : {"take"}, img : TakeImages, vectors : TakeVectors, size : TakeSizes,
     centered : BOOLEAN, integrate : BOOLEAN, clip : BOOLEAN]

NoRet == [fault |-> "none", result |-> NoArray, value |-> NoArray]

NoLocals == <<>>

InitTake ==
    /\ pc = "call"
    /\ locals = NoLocals
    /\ args \in TakeArgs
    /\ ret = NoRet

Take ==
    /\ pc = "call"
    /\ args.fn = "take"
    /\ ret' = take(args.img.images, args.img.dtype, args.vectors, args.size,
                   args.centered, args.integrate, args.clip)
    /\ pc' = "done"
    /\ UNCHANGED <<args, locals>>

NextTake == Take

SpecTake == InitTake /\ [][NextTake]_vars

(***************************************************************************)
(* Properties of take                                                      *)
(***************************************************************************)
TakeDone == pc = "done" /\ args.fn = "take"

TakeK == Len(args.vectors)
TakeW == take_size(args.size)[1]
TakeH == take_size(args.size)[2]

\* Pixel (y, x) of image n (counted from 0) of the images passed to take.
ImagePixel(n, y, x) == args.img.images.data[(n * ImgH + y) * ImgW + x + 1]

TakeN == IF Len(args.img.images.shape) = 2 THEN 1 ELSE args.img.images.shape[1]

\* The pixel index, as an integer, of element p of the region of vector k.
PixelX(k, p) ==
    integration_x(format_2vectors(args.vectors), take_size(args.size), args.centered)[k][p]
PixelY(k, p) ==
    integration_y(format_2vectors(args.vectors), take_size(args.size), args.centered)[k][p]

Outside(k, p) ==
    PixelX(k, p) < 0 \/ PixelX(k, p) >= ImgW \/ PixelY(k, p) < 0 \/ PixelY(k, p) >= ImgH

SomeOutside == \E k \in 1..TakeK : \E p \in 1..(TakeW * TakeH) : Outside(k, p)

\* C1: with clip=False, a call in which some pixel index of some region lies
\* outside the image raises and returns no array.
C1_NoClipOutsideRaises ==
    (TakeDone /\ ~args.clip /\ SomeOutside)
        => (ret.fault # "none" /\ ret.value = NoArray)

\* C2: with clip=True an out-of-range region raises no index fault; in the
\* sampled result an entry is the marker (not-a-number, or zero for an integer
\* image) where its un-clamped pixel index lies outside the image and the image
\* value at its pixel index everywhere else; a returned un-integrated array
\* holds exactly these entries.
C2_ClipMarksOutside ==
    (TakeDone /\ args.clip) =>
        /\ ret.fault # "IndexError"
        /\ ret.result.shape = <<TakeN, TakeK, TakeW * TakeH>>
        /\ \A n \in 0..(TakeN - 1) : \A k \in 1..TakeK : \A p \in 1..(TakeW * TakeH) :
              ret.result.data[(n * TakeK + (k - 1)) * TakeW * TakeH + p] =
                  IF Outside(k, p)
                  THEN (IF args.img.dtype = "float" THEN NaN ELSE Num(0))
                  ELSE ImagePixel(n, PixelY(k, p), PixelX(k, p))
        /\ (ret.fault = "none" /\ ~args.integrate) => ret.value.data = ret.result.data

C2_Witness ==
    /\ TakeDone /\ args.clip /\ ~args.integrate /\ ret.fault = "none"
    /\ \E k \in 1..TakeK : \E p, q \in 1..(TakeW * TakeH) :
          /\ Outside(k, p) /\ ~Outside(k, q)
          /\ IsNaN(ret.value.data[(k - 1) * TakeW * TakeH + p])
          /\ ~IsNaN(ret.value.data[(k - 1) * TakeW * TakeH + q])

\* Points with integer coordinates whose regions lie fully inside the image.
IntegerVectors == \A k \in 1..TakeK : args.vectors[k][1] % 2 = 0 /\ args.vectors[k][2] % 2 = 0

OffsetX == IF args.centered THEN TakeW \div 2 ELSE 0
OffsetY == IF args.centered THEN TakeH \div 2 ELSE 0

VecX(k) == args.vectors[k][1] \div 2
VecY(k) == args.vectors[k][2] \div 2

FullyInside ==
    \A k \in 1..TakeK :
        /\ 0 <= VecX(k) - OffsetX /\ VecX(k) - OffsetX + TakeW <= ImgW
        /\ 0 <= VecY(k) - OffsetY /\ VecY(k) - OffsetY + TakeH <= ImgH

\* C3: for a 2D image, integer points and regions fully inside the image, entry
\* [k, j, i] of the un-integrated result is image[y_k + j - oy, x_k + i - ox]
\* with (ox, oy) = (floor(w/2), floor(h/2)) when centered and (0, 0) otherwise.
C3_WindowAnchoring ==
    (/\ TakeDone /\ ~args.integrate /\ Len(args.img.images.shape) = 2
     /\ IntegerVectors /\ FullyInside) =>
        /\ ret.fault = "none"
        /\ \A k \in 1..TakeK : \A j \in 0..(TakeH - 1) : \A i \in 0..(TakeW - 1) :
              ret.value.data[((k - 1) * TakeH + j) * TakeW + i + 1] =
                  ImagePixel(0, VecY(k) + j - OffsetY, VecX(k) + i - OffsetX)

C3_Witness ==
    /\ TakeDone /\ ~args.integrate /\ Len(args.img.images.shape) = 2
    /\ IntegerVectors /\ FullyInside /\ args.centered
    /\ TakeK = 2 /\ TakeW = 3 /\ TakeH = 2
    /\ ret.fault = "none" /\ Len(ret.value.data) = 12

\* C4: for one image or a stack of N >= 1 images and K >= 1 points, take returns
\* an array of shape (K, h, w) when integrate=False and one of shape (K,) holding
\* the per-region sums when integrate=True.
C4_ResultShape ==
    (TakeDone /\ ~SomeOutside) =>
        /\ ret.fault = "none"
        /\ ret.value.shape = IF args.integrate THEN <<TakeK>>
                             ELSE <<TakeK, TakeH, TakeW>>

\* C5: on a zero image with a unit impulse at (x0, y0), take with an odd window
\* w, centered=True and integrate=True gives 1 for the window centred on the
\* impulse and 0 for the window moved by w/2 along an axis, either way, as long
\* as the moved window stays inside the image.
ImpulseX2 == 2 * args.img.impulse[1]
ImpulseY2 == 2 * args.img.impulse[2]

ShiftedByHalfWindow ==
    LET v == args.vectors[1]
    IN  \/ v[2] = ImpulseY2 /\ (v[1] = ImpulseX2 + TakeW \/ v[1] = ImpulseX2 - TakeW)
        \/ v[1] = ImpulseX2 /\ (v[2] = ImpulseY2 + TakeW \/ v[2] = ImpulseY2 - TakeW)

C5_ImpulseWindow ==
    (/\ TakeDone /\ args.img.impulse # <<>> /\ TakeK = 1
     /\ TakeW = TakeH /\ TakeW % 2 = 1
     /\ args.centered /\ args.integrate /\ ~SomeOutside) =>
        /\ args.vectors[1] = <<ImpulseX2, ImpulseY2>> => ret.value.data = <<Num(1)>>
        /\ ShiftedByHalfWindow => ret.value.data = <<Num(0)>>

(***************************************************************************)
(* The moment engine                                                       *)
(***************************************************************************)
RNeg(a) == IF IsNaN(a) THEN NaN ELSE Frac(-a.n, a.d)

RSub(a, b) == RAdd(a, RNeg(b))

\* np.power(a, e) for an integer e >= 0; np.power(0, 0) is 1.
RECURSIVE RPow(_, _)
RPow(a, e) == IF e = 0 THEN Num(1) ELSE RMul(a, RPow(a, e - 1))

\* np.reciprocal(v, where=v != 0, out=np.zeros(...)): 1/v where v differs from
\* zero (not-a-number differs from zero, and its reciprocal is not-a-number),
\* and the zero of out elsewhere.
reciprocal_where(v) == IF IsNaN(v) THEN NaN
                       ELSE IF v.n = 0 THEN Num(0) ELSE Frac(v.d, v.n)

NanToZero(v) == IF IsNaN(v) THEN Num(0) ELSE v

RECURSIVE NanSumSeq(_)
NanSumSeq(s) == IF s = <<>> THEN Num(0)
                ELSE RAdd(NanToZero(Head(s)), NanSumSeq(Tail(s)))

\* np_sum = np.nansum if nansum else np.sum
np_sum(s, nansum) == IF nansum THEN NanSumSeq(s) ELSE SumSeq(s)

\* The stack images has shape (img_count, w_y, w_x).
img_count(images) == images.shape[1]
w_y(images) == images.shape[2]
w_x(images) == images.shape[3]

\* Image n (from 1) of the stack, ravelled.
image_of(images, n) ==
    LET sz == w_y(images) * w_x(images)
    IN  SubSeq(images.data, (n - 1) * sz + 1, n * sz)

\* centers is a pair (c_x, c_y), [dim |-> 1, c |-> <<c_x, c_y>>], or an array of
\* shape (2, img_count), [dim |-> 2, c |-> <<c_xs, c_ys>>].
center_of(centers, axis, n) ==
    IF centers.dim = 2 THEN centers.c[axis][n] ELSE centers.c[axis]

\* edge_x[i] = np.power(i - (w_x - 1) / 2.0, moment[0]) - c_x, and edge_y alike.
moment_edge(i, w, m, c) == RSub(RPow(Frac(2 * i - (w - 1), 2), m), c)

image_moment(images, moment, centers, normalize, nansum) ==
    LET w == w_x(images)
        h == w_y(images)
        pixel(n, q) == images.data[(n - 1) * w * h + q]
        edge_x(n, q) == moment_edge((q - 1) % w, w, moment[1], center_of(centers, 1, n))
        edge_y(n, q) == moment_edge((q - 1) \div w, h, moment[2], center_of(centers, 2, n))
        reciprical(n) ==
            IF normalize THEN reciprocal_where(np_sum(image_of(images, n), nansum))
            ELSE Num(1)
        times_x(n) == [q \in 1..(w * h) |-> RMul(pixel(n, q), edge_x(n, q))]
        times_y(n) == [q \in 1..(w * h) |-> RMul(pixel(n, q), edge_y(n, q))]
        times_xy(n) ==
            [q \in 1..(w * h) |-> RMul(RMul(pixel(n, q), edge_x(n, q)), edge_y(n, q))]
    IN  [n \in 1..img_count(images) |->
            IF moment[2] = 0
            THEN RMul(np_sum(times_x(n), nansum), reciprical(n))
            ELSE IF moment[1] = 0
            THEN RMul(np_sum(times_y(n), nansum), reciprical(n))
            ELSE IF moment[2] # 0 /\ moment[2] # 0
            THEN RMul(np_sum(times_xy(n), nansum), reciprical(n))
            ELSE IF normalize THEN Num(1)
            ELSE np_sum(image_of(images, n), nansum)]

ZeroCenters == [dim |-> 1, c |-> <<Num(0), Num(0)>>]

image_normalization(images, nansum) ==
    image_moment(images, <<0, 0>>, ZeroCenters, FALSE, nansum)

image_normalize(images, nansum) ==
    LET normalization == image_normalization(images, nansum)
        sz == w_y(images) * w_x(images)
    IN  Array(images.shape,
              [q \in 1..Len(images.data) |->
                  RMul(images.data[q],
                       reciprocal_where(normalization[((q - 1) \div sz) + 1]))])

\* np.vstack((M10, M01)): row 1 and row 2, one entry per image.
image_positions(images, normalize, nansum) ==
    LET imgs == IF normalize THEN image_normalize(images, FALSE) ELSE images
    IN  << image_moment(imgs, <<1, 0>>, ZeroCenters, FALSE, nansum),
           image_moment(imgs, <<0, 1>>, ZeroCenters, FALSE, nansum) >>

\* centers=None
NoCenters == [dim |-> 0, c |-> <<>>]

image_variances(images, centers, normalize, nansum) ==
    LET imgs == IF normalize THEN image_normalize(images, FALSE) ELSE images
        ctrs == IF centers.dim = 0
                THEN [dim |-> 2, c |-> image_positions(imgs, FALSE, nansum)]
                ELSE centers
        m20 == image_moment(imgs, <<2, 0>>, ctrs, FALSE, nansum)
        m11 == image_moment(imgs, <<1, 1>>, ctrs, FALSE, nansum)
        m02 == image_moment(imgs, <<0, 2>>, ctrs, FALSE, nansum)
    IN  <<m20, m02, m11>>

(***************************************************************************)
(* The calls of the moment engine that are explored                        *)
(***************************************************************************)
MomW == 3
MomH == 2
MaxLit == 2
MaxOrder == 2

PixelValues == {Num(0), Num(1), NaN}

\* The images with at most MaxLit pixels that are not zero.
MomentImages ==
    {f \in [1..(MomW * MomH) -> PixelValues] :
        Cardinality({q \in 1..(MomW * MomH) : f[q] # Num(0)}) <= MaxLit}

\* The second image of the stacks of two: one with a not-a-number entry, one
\* without.
SecondImages ==
    {[q \in 1..(MomW * MomH) |-> IF q = 1 THEN first ELSE IF q = 2 THEN Num(1) ELSE Num(0)] :
        first \in {NaN, Num(1)}}

MomentStacks ==
    {Array(<<1, MomH, MomW>>, f) : f \in MomentImages}
    \cup {Array(<<2, MomH, MomW>>, f \o g) : f \in MomentImages, g \in SecondImages}

PairCenters ==
    {[dim |-> 1, c |-> <<Num(cx), Num(cy)>>] :
        <<cx, cy>> \in {<<0, 0>>, <<1, 0>>, <<0, 1>>, <<-1, 1>>, <<1, -1>>}}

ArrayCenters(images) ==
    [dim |-> 2, c |-> <<[n \in 1..img_count(images) |-> Num(1)],
                        [n \in 1..img_count(images) |-> Num(-1)]>>]

MomentCenters(images) == PairCenters \cup {ArrayCenters(images)}

\* image_moment(images, moment, centers, normalize, nansum)
MomentCall(im, nz, ns) ==
    \E mx \in 0..MaxOrder, my \in 0..MaxOrder, c \in MomentCenters(im) :
        args = [fn |-> "image_moment", images |-> im, moment |-> <<mx, my>>,
                centers |-> c, normalize |-> nz, nansum |-> ns]

\* image_positions(images, normalize, nansum)
PositionsCall(im, nz, ns) ==
    args = [fn |-> "image_positions", images |-> im, moment |-> <<>>,
            centers |-> NoCenters, normalize |-> nz, nansum |-> ns]

\* image_variances(images, centers, normalize, nansum)
VariancesCall(im, nz, ns) ==
    \E c \in {NoCenters, ArrayCenters(im)} :
        args = [fn |-> "image_variances", images |-> im, moment |-> <<>>,
                centers |-> c, normalize |-> nz, nansum |-> ns]

InitMoment ==
    /\ pc = "call"
    /\ locals = NoLocals
    /\ ret = <<>>
    /\ \E im \in MomentStacks, nz \in BOOLEAN, ns \in BOOLEAN :
          \/ MomentCall(im, nz, ns)
          \/ PositionsCall(im, nz, ns)
          \/ VariancesCall(im, nz, ns)

ImageMoment ==
    /\ pc = "call"
    /\ args.fn = "image_moment"
    /\ ret' = image_moment(args.images, args.moment, args.centers,
                           args.normalize, args.nansum)
    /\ pc' = "done"
    /\ UNCHANGED <<args, locals>>

ImagePositions ==
    /\ pc = "call"
    /\ args.fn = "image_positions"
    /\ ret' = image_positions(args.images, args.normalize, args.nansum)
    /\ pc' = "done"
    /\ UNCHANGED <<args, locals>>

ImageVariances ==
    /\ pc = "call"
    /\ args.fn = "image_variances"
    /\ ret' = image_variances(args.images, args.centers, args.normalize, args.nansum)
    /\ pc' = "done"
    /\ UNCHANGED <<args, locals>>

NextMoment == ImageMoment \/ ImagePositions \/ ImageVariances

SpecMoment == InitMoment /\ [][NextMoment]_vars

(***************************************************************************)
(* Properties of the moment engine                                         *)
(***************************************************************************)
MomentDone(fn) == pc = "done" /\ args.fn = fn

HasNaN(images) == \E q \in 1..Len(images.data) : IsNaN(images.data[q])

\* The image with its not-a-number entries replaced by zero.
ZeroedNaN(images) ==
    Array(images.shape, [q \in 1..Len(images.data) |-> NanToZero(images.data[q])])

\* x and y of pixel q (from 1), measured from the image midpoint.
MidX(q) == Frac(2 * ((q - 1) % MomW) - (MomW - 1), 2)
MidY(q) == Frac(2 * ((q - 1) \div MomW) - (MomH - 1), 2)

\* The sum over the pixels of image n of P(x, y) * (x - cx)^mx * (y - cy)^my.
MomentSum(n, mx, my, cx, cy) ==
    SumSeq([q \in 1..(MomW * MomH) |->
               RMul(args.images.data[(n - 1) * MomW * MomH + q],
                    RMul(RPow(RSub(MidX(q), cx), mx), RPow(RSub(MidY(q), cy), my)))])

\* C6: with normalize=False, image_moment returns for each image the sum over its
\* pixels of P(x, y) * (x - cx)^mx * (y - cy)^my, x and y measured from the image
\* midpoint, for every moment and every centers.
C6_MomentIsPolynomialSum ==
    (MomentDone("image_moment") /\ ~args.normalize /\ ~HasNaN(args.images)) =>
        \A n \in 1..img_count(args.images) :
            ret[n] = MomentSum(n, args.moment[1], args.moment[2],
                               center_of(args.centers, 1, n),
                               center_of(args.centers, 2, n))

\* Every image of the stack has finite entries and a positive total.
PositiveMass(images) ==
    /\ ~HasNaN(images)
    /\ \A n \in 1..img_count(images) : SumSeq(image_of(images, n)).n > 0

\* C7: image_moment with moment=(0, 0) and normalize=True returns 1 for every
\* image of a stack of positive-mass images, whatever the centers.
C7_ZerothMomentIsOne ==
    (/\ MomentDone("image_moment") /\ args.moment = <<0, 0>> /\ args.normalize
     /\ PositiveMass(args.images)) =>
        \A n \in 1..img_count(args.images) : ret[n] = Num(1)

\* C8: with nansum=True and normalize=True, image_moment, image_positions and
\* image_variances give for an image with not-a-number entries what they give
\* for the image with those entries replaced by zero.
C8_NanCountsAsZero ==
    (pc = "done" /\ args.nansum /\ args.normalize /\ HasNaN(args.images)) =>
        ret = CASE args.fn = "image_moment" ->
                     image_moment(ZeroedNaN(args.images), args.moment, args.centers,
                                  TRUE, TRUE)
                [] args.fn = "image_positions" ->
                     image_positions(ZeroedNaN(args.images), TRUE, TRUE)
                [] args.fn = "image_variances" ->
                     image_variances(ZeroedNaN(args.images), args.centers, TRUE, TRUE)

(***************************************************************************)
(* image_ellipticity                                                       *)
(***************************************************************************)
RLess(a, b) == a.n * b.d < b.n * a.d

\* The sign (-1, 0, 1) of a + s * sqrt(r) for fractions a and r >= 0 and
\* s = 1 or -1, decided exactly by comparing a * a with r.
SignWithRoot(a, s, r) ==
    LET sq == RMul(a, a)
    IN  IF s = 1
        THEN IF a.n >= 0 THEN (IF a.n = 0 /\ r.n = 0 THEN 0 ELSE 1)
             ELSE IF RLess(sq, r) THEN 1 ELSE IF sq = r THEN 0 ELSE -1
        ELSE IF a.n <= 0 THEN (IF a.n = 0 /\ r.n = 0 THEN 0 ELSE -1)
             ELSE IF RLess(r, sq) THEN 1 ELSE IF sq = r THEN 0 ELSE -1

\* image_ellipticity for one triplet (M20, M02, M11) of variances.  The square
\* root is kept exact: eig_plus and eig_minus are half_trace + sqrt(radicand)
\* and half_trace - sqrt(radicand), and np.sqrt gives not-a-number for a
\* negative radicand.  in_unit says whether the value returned,
\* 1 - eig_minus / eig_plus, is a number of [0, 1].
image_ellipticity(m20, m02, m11) ==
    LET half_trace  == Frac(m20 + m02, 2)
        determinant == Num(m20 * m20 - m11 * m11)
        radicand    == RSub(RMul(half_trace, half_trace), determinant)
        is_nan      == radicand.n < 0
        sign_plus   == IF is_nan THEN 0 ELSE SignWithRoot(half_trace, 1, radicand)
        sign_minus  == IF is_nan THEN 0 ELSE SignWithRoot(half_trace, -1, radicand)
    IN  [half_trace |-> half_trace, determinant |-> determinant,
         radicand |-> radicand, is_nan |-> is_nan,
         sign_plus |-> sign_plus, sign_minus |-> sign_minus,
         in_unit |-> /\ ~is_nan
                     /\ \/ sign_plus = 1 /\ sign_minus >= 0
                        \/ sign_plus = -1 /\ radicand.n = 0]

MaxMoment == 3

InitEllipticity ==
    /\ pc = "call"
    /\ locals = NoLocals
    /\ ret = <<>>
    /\ \E m20 \in -1..MaxMoment, m02 \in -1..MaxMoment, m11 \in -MaxMoment..MaxMoment :
          args = [fn |-> "image_ellipticity", variances |-> <<m20, m02, m11>>]

ImageEllipticity ==
    /\ pc = "call"
    /\ args.fn = "image_ellipticity"
    /\ ret' = image_ellipticity(args.variances[1], args.variances[2], args.variances[3])
    /\ pc' = "done"
    /\ UNCHANGED <<args, locals>>

NextEllipticity == ImageEllipticity

SpecEllipticity == InitEllipticity /\ [][NextEllipticity]_vars

\* The tensor [[M20, M11], [M11, M02]] is positive semi-definite with a
\* positive trace.
ValidTriplet(v) ==
    /\ v[1] >= 0 /\ v[2] >= 0
    /\ v[1] * v[2] - v[3] * v[3] >= 0
    /\ v[1] + v[2] > 0

\* C9: for every valid second-moment triplet the quantity under the square root
\* is non-negative, the two values used as eigenvalues satisfy
\* 0 <= minor <= major and are the eigenvalues of the tensor (their sum is its
\* trace, their product its determinant), and the ellipticity lies in [0, 1].
C9_EllipticityInUnitInterval ==
    (pc = "done" /\ args.fn = "image_ellipticity" /\ ValidTriplet(args.variances)) =>
        /\ ret.radicand.n >= 0
        /\ ret.sign_minus >= 0
        /\ RSub(RMul(ret.half_trace, ret.half_trace), ret.radicand) =
               Num(args.variances[1] * args.variances[2]
                   - args.variances[3] * args.variances[3])
        /\ RAdd(ret.half_trace, ret.half_trace) =
               Num(args.variances[1] + args.variances[2])
        /\ ret.in_unit

(***************************************************************************)
(* blob_array_detect                                                       *)
(*                                                                         *)
(* The image itself is not modelled: what the image decides (the number of *)
(* peaks blob_detect finds in the Fourier transform, the lattice vectors   *)
(* they give, the score and place of the best template match, the power    *)
(* sampled at each spot, the shift a honing pass measures) is chosen from  *)
(* small sets at the step that computes it.  A 2x2 matrix is a pair of     *)
(* rows; M has integer entries and b is kept in half units.                *)
(***************************************************************************)
MatMul(A, B) ==
    << <<A[1][1] * B[1][1] + A[1][2] * B[2][1], A[1][1] * B[1][2] + A[1][2] * B[2][2]>>,
       <<A[2][1] * B[1][1] + A[2][2] * B[2][1], A[2][1] * B[1][2] + A[2][2] * B[2][2]>> >>

\* rotation = [[c, -s], [s, c]] for theta = rotation_parity * pi / 2
rotation_matrix(k) ==
    CASE k = 0 -> << <<1, 0>>, <<0, 1>> >>
      [] k = 1 -> << <<0, -1>>, <<1, 0>> >>
      [] k = 2 -> << <<-1, 0>>, <<0, -1>> >>
      [] k = 3 -> << <<0, 1>>, <<-1, 0>> >>

flip_matrix(flip_parity) ==
    IF flip_parity = 1 THEN << <<1, 0>>, <<0, 1>> >> ELSE << <<0, 1>>, <<1, 0>> >>

\* One quarter turn of a grid clockwise.
rot90_clockwise(g) ==
    LET R == Len(g)
        C == Len(g[1])
    IN  [i \in 1..C |-> [j \in 1..R |-> g[R - j + 1][i]]]

\* np.rot90 of a grid given as a sequence of rows: one quarter turn
\* counter-clockwise, and k of them.
rot90_once(g) ==
    LET R == Len(g)
        C == Len(g[1])
    IN  [i \in 1..C |-> [j \in 1..R |-> g[j][C - i + 1]]]

RECURSIVE rot90(_, _)
rot90(g, k) == IF k = 0 THEN g ELSE rot90(rot90_once(g), k - 1)

Ravel(g) == [q \in 1..(Len(g) * Len(g[1])) |->
                g[((q - 1) \div Len(g[1])) + 1][((q - 1) % Len(g[1])) + 1]]

CountTrue(s) == Cardinality({q \in 1..Len(s) : s[q]})

\* np.sort(flat)[1]: the second smallest element.
second_smallest(flat) ==
    CHOOSE v \in {flat[q] : q \in 1..Len(flat)} :
        /\ Cardinality({q \in 1..Len(flat) : flat[q] < v}) <= 1
        /\ Cardinality({q \in 1..Len(flat) : flat[q] <= v}) >= 2

\* An except branch that falls back on the column swap of M_trial.
ParityFailed_swapped(M_trial) ==
    [M_fixed |-> << <<M_trial[1][2], M_trial[1][1]>>, <<M_trial[2][2], M_trial[2][1]>> >>,
     parity_success |-> FALSE]

\* The except branch: M_fixed = M_trial, parity_success = False.
ParityFailed(M_trial) == [M_fixed |-> M_trial, parity_success |-> FALSE]

\* The parity check on the grid spotpowers (size[1] rows of size[0] spots): the
\* body of the try block, every assertion or index fault ending in the except
\* branch.
parity_check(spotpowers, M_trial) ==
    LET R == Len(spotpowers)
        C == Len(spotpowers[1])
    IN  IF R * C < 2 THEN ParityFailed(M_trial)
        ELSE
        LET threshold == second_smallest(Ravel(spotpowers))
            spotbooleans == [j \in 1..R |-> [i \in 1..C |-> spotpowers[j][i] <= threshold]]
            corners == <<spotbooleans[R][C], spotbooleans[R][1],
                         spotbooleans[1][1], spotbooleans[1][C]>>
        IN  IF CountTrue(Ravel(spotbooleans)) # 2 THEN ParityFailed(M_trial)
            ELSE IF CountTrue(corners) # 1 THEN ParityFailed(M_trial)
            ELSE
            LET rotation_parity == (CHOOSE c \in 1..4 :
                                       corners[c] /\ \A e \in 1..(c - 1) : ~corners[e]) - 1
                spotbooleans_rotated == rot90(spotbooleans, rotation_parity)
                RR == Len(spotbooleans_rotated)
                RC == Len(spotbooleans_rotated[1])
            IN  IF RR < 2 \/ RC < 2 THEN ParityFailed(M_trial)
                ELSE
                LET flip_parity ==
                        (IF spotbooleans_rotated[RR][RC - 1] THEN 1 ELSE 0)
                        - (IF spotbooleans_rotated[RR - 1][RC] THEN 1 ELSE 0)
                IN  IF Abs(flip_parity) # 1 THEN ParityFailed(M_trial)
                    ELSE [M_fixed |-> MatMul(M_trial,
                                             MatMul(rotation_matrix(rotation_parity),
                                                    flip_matrix(flip_parity))),
                          parity_success |-> TRUE]

\* int(sqrt(a)) for a >= 0
ISqrt(a) == CHOOSE r \in 0..a : r * r <= a /\ (r + 1) * (r + 1) > a

\* max_pitch = int(max(|M[:, 0]|, |M[:, 1]|))
max_pitch(M) ==
    LET c1 == M[1][1] * M[1][1] + M[2][1] * M[2][1]
        c2 == M[1][2] * M[1][2] + M[2][2] * M[2][2]
    IN  ISqrt(IF c1 > c2 THEN c1 ELSE c2)

\* mask.shape = (rows, columns): the extent of the padded grid of
\* (size[0] + 2) x (size[1] + 2) spots through M, plus max_pitch.
mask_shape(M, size) ==
    << Abs(M[2][1]) * (size[1] + 1) + Abs(M[2][2]) * (size[2] + 1) + max_pitch(M),
       Abs(M[1][1]) * (size[1] + 1) + Abs(M[1][2]) * (size[2] + 1) + max_pitch(M) >>

\* b_fixed = max_loc + np.flip(mask.shape) / 2, in half units.
b_fixed(max_loc, M, size) ==
    << 2 * max_loc[1] + mask_shape(M, size)[2], 2 * max_loc[2] + mask_shape(M, size)[1] >>

\* np.arange(-(n - 1) / 2.0, (n + 1) / 2.0), in half units
center_list(n) == [i \in 1..n |-> 2 * (i - 1) - (n - 1)]

\* np.vstack((x_centergrid.ravel(), y_centergrid.ravel())) of the meshgrid of
\* nx by ny spot indices, as the sequence of its columns <<x, y>>, in half
\* units.
centers(nx, ny) ==
    [q \in 1..(nx * ny) |->
        << center_list(nx)[((q - 1) % nx) + 1], center_list(ny)[((q - 1) \div nx) + 1] >>]

\* (np.matmul(M_trial, c) + np.flip(mask.shape) / 2).astype(np.int) for every
\* column c: the pixels <<x, y>> of the spots in the mask.
kernel_pixels(M, c, shape) ==
    [q \in 1..Len(c) |->
        << TruncHalf(M[1][1] * c[q][1] + M[1][2] * c[q][2] + shape[2]),
           TruncHalf(M[2][1] * c[q][1] + M[2][2] * c[q][2] + shape[1]) >>]

\* The places <<row, column>> that mask[y, x] = value writes.
written(pixels, shape) ==
    {<<WrapIndex(pixels[q][2], shape[1]), WrapIndex(pixels[q][1], shape[2])>> :
        q \in 1..Len(pixels)}

\* Lines 879-910: the mask before _make_8bit, zero but at the places in set:
\* -area is written at the pixels of the padded grid, then perimeter at the
\* pixels of the array.  An index outside the mask is an IndexError.
kernel_mask(M, size) ==
    LET shape == mask_shape(M, size)
        array == kernel_pixels(M, centers(size[1], size[2]), shape)
        larger == kernel_pixels(M, centers(size[1] + 2, size[2] + 2), shape)
        area == size[1] * size[2]
        perimeter == 2 * (size[1] + size[2]) + 4
        at_larger == written(larger, shape)
        at_array == written(array, shape)
    IN  [fault |-> \E q \in 1..Len(larger) :
                      ~IndexOk(larger[q][2], shape[1]) \/ ~IndexOk(larger[q][1], shape[2]),
         shape |-> shape,
         set |-> [at \in at_larger \cup at_array |->
                    IF at \in at_array THEN perimeter ELSE -area]]

\* M_alternative: M with its columns swapped.
M_alternative(M) == << <<M[1][2], M[1][1]>>, <<M[2][2], M[2][1]>> >>

M_options(M, size, orientation_given) ==
    IF size[1] # size[2] /\ ~orientation_given THEN <<M, M_alternative(M)>> ELSE <<M>>

\* A choice among results by the score alone.
select_index_by_score(results) ==
    IF Len(results) = 1 THEN 1
    ELSE (IF results[2][1] > results[1][1] THEN 2 ELSE 1)

\* The candidate chosen among results, each <<max_val, b_fixed, M_fixed,
\* parity_success>>.
select_index(results) ==
    IF Len(results) = 1 THEN 1
    ELSE IF results[1][4] = results[2][4]
    THEN (IF results[2][1] > results[1][1] THEN 2 ELSE 1)
    ELSE (IF results[2][4] THEN 2 ELSE 1)

\* psf = 2 * int(floor(min over the columns of M of the largest entry) / 2) + 1
hone_psf(M) ==
    LET col1 == IF M[1][1] > M[2][1] THEN M[1][1] ELSE M[2][1]
        col2 == IF M[1][2] > M[2][2] THEN M[1][2] ELSE M[2][2]
        least == IF col1 < col2 THEN col1 ELSE col2
    IN  2 * TruncHalf(least) + 1

\* take(img, guess_positions, psf, ...) in hone, for a window size below zero:
\* np.arange(psf) holds no offset, the sampled result holds no entry, and
\* np.reshape of it to (K, psf, psf) raises ValueError.
hone_take_fault(psf) == IF psf < 0 THEN "ValueError" ELSE "none"

(***************************************************************************)
(* blob_array_detect: the lattice estimate from the Fourier peaks          *)
(*                                                                         *)
(* A peak is the place <<px, py>> of a blob of the Fourier amplitude,      *)
(* counted in pixels from the middle of the transform, so that the         *)
(* frequency of the code is k = p / FftSize.                               *)
(***************************************************************************)
\* fftsize: the side of the transform, a power of two.
FftSize == 16

\* len(blobs) < 5 with a threshold of four: a lattice estimate from the DC peak
\* and three neighbours.
too_few_blobs_four(blobs) == Len(blobs) < 4

\* len(blobs) < 5
too_few_blobs(blobs) == Len(blobs) < 5

\* blob_dist squared, in units of 1 / FftSize^2
blob_dist2(p) == p[1] * p[1] + p[2] * p[2]

\* np.argsort: the indices in ascending order of d, equal values in the order
\* they have in d (numpy sorts arrays this short by insertion).
argsort(d) ==
    [r \in 1..Len(d) |->
        CHOOSE i \in 1..Len(d) :
            Cardinality({j \in 1..Len(d) : d[j] < d[i] \/ (d[j] = d[i] /\ j < i)}) = r - 1]

\* blobs[np.argsort(blob_dist)[:5]]
nearest_five(blobs) ==
    LET sort_ind == argsort([i \in 1..Len(blobs) |-> blob_dist2(blobs[i])])
    IN  [r \in 1..(IF Len(blobs) < 5 THEN Len(blobs) ELSE 5) |-> blobs[sort_ind[r]]]

\* np.argmin and np.argmax: the first index of the least and greatest value
argmin(s) == CHOOSE i \in 1..Len(s) :
                 /\ \A j \in 1..Len(s) : s[i] <= s[j]
                 /\ \A j \in 1..(i - 1) : s[j] > s[i]

argmax(s) == CHOOSE i \in 1..Len(s) :
                 /\ \A j \in 1..Len(s) : s[i] >= s[j]
                 /\ \A j \in 1..(i - 1) : s[j] < s[i]

\* (blob_dist[a] + blob_dist[b]) ** 2 in units of 1 / FftSize^2; exact where
\* the product of the two squared distances is a perfect square.
dist_sum_squared(p, q) ==
    blob_dist2(p) + blob_dist2(q) + 2 * ISqrt(blob_dist2(p) * blob_dist2(q))

\* 2 * (k[hi, :] - k[lo, :]) / (blob_dist[hi] + blob_dist[lo]) ** 2: a division
\* of zero by zero gives not-a-number.
lattice_vector(k, hi, lo) ==
    LET s == dist_sum_squared(k[hi], k[lo])
    IN  << Frac(2 * FftSize * (k[hi][1] - k[lo][1]), s),
           Frac(2 * FftSize * (k[hi][2] - k[lo][2]), s) >>

\* M = [[x[0], y[0]], [x[1], y[1]]] from the five peaks nearest the middle.
lattice_vectors(blobs) ==
    LET k == nearest_five(blobs)
        kx == [i \in 1..Len(k) |-> k[i][1]]
        ky == [i \in 1..Len(k) |-> k[i][2]]
        x == lattice_vector(k, argmax(kx), argmin(kx))
        y == lattice_vector(k, argmax(ky), argmin(ky))
    IN  << <<x[1], y[1]>>, <<x[2], y[2]>> >>

MatrixHasNaN(M) == \E r \in 1..2, c \in 1..2 : IsNaN(M[r][c])

MatrixIsWhole(M) == \A r \in 1..2, c \in 1..2 : M[r][c].d = 1

WholeMatrix(M) == << <<M[1][1].n, M[1][2].n>>, <<M[2][1].n, M[2][2].n>> >>

\* One call of hone() with the M of the orientation exchanged for its column
\* swap.
hone_refit(orientation, shift) ==
    [M |-> << <<orientation.M[1][2], orientation.M[1][1]>>,
              <<orientation.M[2][2], orientation.M[2][1]>> >>,
     b |-> <<orientation.b[1] + 2 * shift[1], orientation.b[2] + 2 * shift[2]>>]

\* orientation["b"] += [mean shift_x, mean shift_y]: b in half units.
hone(orientation, shift) ==
    [M |-> orientation.M,
     b |-> <<orientation.b[1] + 2 * shift[1], orientation.b[2] + 2 * shift[2]>>]

(***************************************************************************)
(* The calls of blob_array_detect that are explored                        *)
(***************************************************************************)
MaxBlobs == 5
MaxScore == 1
MaxShift == 1
MaxDim == 2

NoOrientation == [M |-> <<>>, b |-> <<>>]

\* The peaks blob_detect may find in the Fourier amplitude, in the order it
\* lists them: a square lattice, a lattice of two pitches, a square lattice
\* turned by 45 degrees, peaks on one diagonal, and peaks on the horizontal
\* line through the middle.
PeakLayouts ==
    { << <<0, 0>>, <<4, 0>>, <<-4, 0>>, <<0, 4>>, <<0, -4>>, <<4, 4>> >>,
      << <<0, 0>>, <<2, 2>>, <<-2, 2>>, <<-2, -2>>, <<2, -2>>, <<4, 0>> >>,
      << <<0, 0>>, <<2, 0>>, <<-2, 0>>, <<0, 4>>, <<0, -4>>, <<2, 4>> >>,
      << <<0, 0>>, <<1, 1>>, <<-1, -1>>, <<2, 2>>, <<-2, -2>>, <<3, 3>> >>,
      << <<0, 0>>, <<1, 0>>, <<-1, 0>>, <<2, 0>>, <<-2, 0>>, <<3, 0>> >> }

GivenOrientations == {[M |-> << <<4, 0>>, <<0, 4>> >>, b |-> <<20, 24>>]}

\* size: (Nx, Ny), or a single int.
DetectSizes == {<<2>>, <<2, 2>>, <<3, 2>>, <<1, 2>>, <<3, 3>>}

\* What the template match may give: cv2.matchTemplate fails (score 0 at
\* [0, 0]), or cv2.minMaxLoc finds the best score at some place.
MatchOutcomes ==
    {[max_val |-> 0, max_loc |-> <<0, 0>>]}
    \cup {[max_val |-> v, max_loc |-> <<3, 5>>] : v \in 0..MaxScore}

\* What a honing pass may measure: no shift, or a shift along both axes.
HoneShifts == {<<0, 0>>, <<MaxShift, -MaxShift>>}

\* The power sampled at a spot: dim or bright.
SpotPowers == {0, 1}

DetectLocals ==
    [blobs |-> <<>>, detects |-> 0, M |-> <<>>, M_options |-> <<>>, results |-> <<>>,
     mask |-> <<>>, spotpowers |-> <<>>, index |-> 0, orientation |-> NoOrientation,
     psf |-> 0, hones |-> 0, shifts |-> <<>>]

NoResult == [fault |-> "none", value |-> NoOrientation]

InitDetect ==
    /\ pc = "start"
    /\ ret = NoResult
    /\ locals = DetectLocals
    /\ \E size \in DetectSizes, o \in {NoOrientation} \cup GivenOrientations,
          check \in BOOLEAN, plot \in BOOLEAN :
          args = [fn |-> "blob_array_detect", size |-> size, orientation |-> o,
                  orientation_check |-> check, plot |-> plot]

Raise(exception) ==
    /\ ret' = [fault |-> exception, value |-> NoOrientation]
    /\ pc' = "done"

\* Lines 756-864: the lattice estimate from the Fourier peaks (or the M of the
\* orientation given), and the lists of spot centers, which index size.
\* blob_detect raises when it finds no blob; fewer than five blobs raise after
\* a second, plotting call of blob_detect when plot is set; a not-a-number in M
\* reaches int() at line 875.
Estimate ==
    /\ pc = "start"
    /\ UNCHANGED args
    /\ IF args.orientation = NoOrientation
       THEN \E layout \in PeakLayouts, n \in 0..MaxBlobs :
              LET blobs == SubSeq(layout, 1, n)
                  found == [locals EXCEPT !.blobs = blobs, !.detects = 1]
              IN  IF n = 0
                  THEN Raise("Exception") /\ locals' = found
                  ELSE IF too_few_blobs(blobs)
                  THEN /\ Raise("RuntimeError")
                       /\ locals' = [found EXCEPT !.detects = IF args.plot THEN 2 ELSE 1]
                  ELSE IF Len(args.size) = 1
                  THEN Raise("TypeError") /\ locals' = found
                  ELSE IF MatrixHasNaN(lattice_vectors(blobs))
                  THEN Raise("ValueError") /\ locals' = found
                  ELSE /\ MatrixIsWhole(lattice_vectors(blobs))
                       /\ LET M == WholeMatrix(lattice_vectors(blobs))
                          IN  locals' = [found EXCEPT !.M = M,
                                             !.M_options = M_options(M, args.size, FALSE)]
                       /\ pc' = "trial"
                       /\ UNCHANGED ret
       ELSE IF Len(args.size) = 1
            THEN Raise("TypeError") /\ UNCHANGED locals
            ELSE /\ locals' = [locals EXCEPT !.M = args.orientation.M,
                                  !.M_options = M_options(args.orientation.M, args.size, TRUE)]
                 /\ pc' = "trial"
                 /\ UNCHANGED ret

\* The grids of spot powers with at most MaxDim dim spots.
SpotGrids(size) ==
    {g \in [1..size[2] -> [1..size[1] -> SpotPowers]] :
        Cardinality({<<j, i>> \in (1..size[2]) \X (1..size[1]) : g[j][i] = 0}) <= MaxDim}

\* Lines 869-997: one pass of the loop over M_options: the template match
\* (a failure of cv2.matchTemplate gives score 0 at [0, 0]) and the parity
\* check, whose sampling of the spot powers may itself fault.
Trial ==
    /\ pc = "trial"
    /\ LET i == Len(locals.results) + 1
           M_trial == locals.M_options[i]
           more == i < Len(locals.M_options)
       IN  \E mask \in {kernel_mask(M_trial, args.size)} :
           IF mask.fault
           THEN Raise("IndexError") /\ UNCHANGED <<args, locals>>
           ELSE \E match \in MatchOutcomes :
             LET max_val == match.max_val
                 b == b_fixed(match.max_loc, M_trial, args.size)
             IN  /\ IF args.orientation = NoOrientation /\ args.orientation_check
                    THEN \/ \E spotpowers \in SpotGrids(args.size) :
                              LET fixed == parity_check(spotpowers, M_trial)
                              IN  locals' = [locals EXCEPT
                                     !.mask = mask,
                                     !.spotpowers = spotpowers,
                                     !.results = Append(@, <<max_val, b, fixed.M_fixed,
                                                             fixed.parity_success>>)]
                         \/ LET fixed == ParityFailed(M_trial)
                            IN  locals' = [locals EXCEPT
                                   !.mask = mask,
                                   !.spotpowers = <<>>,
                                   !.results = Append(@, <<max_val, b, fixed.M_fixed,
                                                           fixed.parity_success>>)]
                    ELSE locals' = [locals EXCEPT
                            !.mask = mask,
                            !.results = Append(@, <<max_val, b, M_trial, TRUE>>)]
                 /\ pc' = IF more THEN "trial" ELSE "select"
                 /\ UNCHANGED <<args, ret>>

\* Lines 999-1009: the choice among the candidates.  The mask and the spot
\* powers of the loop are not read again and are dropped here.
Select ==
    /\ pc = "select"
    /\ LET index == select_index(locals.results)
       IN  locals' = [locals EXCEPT
              !.index = index,
              !.mask = <<>>,
              !.spotpowers = <<>>,
              !.orientation = [M |-> locals.results[index][3],
                               b |-> locals.results[index][2]]]
    /\ pc' = "hone"
    /\ UNCHANGED <<args, ret>>

\* Lines 1065-1111: one call of hone(): b moves by the mean shift measured.
Hone ==
    /\ pc = "hone"
    /\ LET psf == hone_psf(locals.orientation.M)
       IN  IF hone_take_fault(psf) # "none"
           THEN /\ locals' = [locals EXCEPT !.psf = psf, !.hones = @ + 1]
                /\ Raise(hone_take_fault(psf))
                /\ UNCHANGED args
           ELSE /\ \E shift \in HoneShifts :
                      locals' = [locals EXCEPT
                         !.psf = psf,
                         !.hones = @ + 1,
                         !.shifts = Append(@, shift),
                         !.orientation = hone(locals.orientation, shift)]
                /\ pc' = IF locals.hones + 1 = 2 THEN "return" ELSE "hone"
                /\ UNCHANGED <<args, ret>>

\* Line 1165: return orientation
Return ==
    /\ pc = "return"
    /\ ret' = [fault |-> "none", value |-> locals.orientation]
    /\ pc' = "done"
    /\ UNCHANGED <<args, locals>>

NextDetect == Estimate \/ Trial \/ Select \/ Hone \/ Return

SpecDetect == InitDetect /\ [][NextDetect]_vars

(***************************************************************************)
(* Properties of blob_array_detect                                         *)
(***************************************************************************)
DetectDone == pc = "done" /\ args.fn = "blob_array_detect"

\* The parity check of the candidate that was selected has failed.
SelectedParityFailed == locals.index > 0 /\ ~locals.results[locals.index][4]

\* C10: whenever the parity check of the selected candidate has failed, the call
\* raises or the value returned carries a parity_success=False marker.
C10_ParityFailureIsMarked ==
    (DetectDone /\ SelectedParityFailed) =>
        \/ ret.fault # "none"
        \/ /\ "parity_success" \in DOMAIN ret.value
           /\ ret.value.parity_success = FALSE

Det(M) == M[1][1] * M[2][2] - M[1][2] * M[2][1]

\* C11: every orientation returned when no prior orientation was given has a
\* non-singular M (the call raises where the peaks give no two independent
\* lattice vectors).
C11_ReturnedMIsNonSingular ==
    (DetectDone /\ args.orientation = NoOrientation /\ ret.fault = "none") =>
        Det(ret.value.M) # 0

\* The call with the size written as a pair would get past the estimate.
LatticeEstimated ==
    \/ args.orientation # NoOrientation
    \/ /\ ~too_few_blobs(locals.blobs)
       /\ ~MatrixHasNaN(lattice_vectors(locals.blobs))

\* C12: a call with a scalar size N succeeds (as the call with size (N, N)
\* does) wherever the lattice estimate is there.
C12_ScalarSizeAccepted ==
    (DetectDone /\ Len(args.size) = 1 /\ LatticeEstimated) => ret.fault = "none"

\* C13: with no prior orientation and fewer than 5 peaks the call has raised,
\* whatever plot is, and no template match, parity check or honing pass ran.
C13_TooFewPeaksRaises ==
    (/\ args.fn = "blob_array_detect"
     /\ pc # "start"
     /\ args.orientation = NoOrientation
     /\ Len(locals.blobs) < 5) =>
        /\ pc = "done"
        /\ ret.fault # "none"
        /\ locals.results = <<>>
        /\ locals.spotpowers = <<>>
        /\ locals.index = 0
        /\ locals.hones = 0

C13_Witness ==
    /\ DetectDone
    /\ args.orientation = NoOrientation
    /\ args.plot
    /\ Len(locals.blobs) = 4
    /\ locals.detects = 2
    /\ ret.fault = "RuntimeError"

\* The candidates of the loop and the one it handled last.
Candidates == Len(locals.results)
LastResult == locals.results[Candidates]
LastTrialM == locals.M_options[Candidates]

\* r ranks above s under (parity_success, score), success above failure.
Better(r, s) == (r[4] /\ ~s[4]) \/ (r[4] = s[4] /\ r[1] > s[1])

ColumnsSwapped(A, B) == \A r \in 1..2, c \in 1..2 : B[r][c] = A[r][3 - c]

ShiftTotal(axis) ==
    IF locals.shifts = <<>> THEN 0
    ELSE IF Len(locals.shifts) = 1 THEN locals.shifts[1][axis]
    ELSE locals.shifts[1][axis] + locals.shifts[2][axis]

\* C17: two candidates (M and its column swap) exactly for a non-square array
\* with no prior orientation, one otherwise; the candidate selected is greatest
\* under (parity_success, score), the first on a tie, and its M and its b (moved
\* by the honing shifts) are what the call returns.
C17_SelectsBestCandidate ==
    (args.fn = "blob_array_detect" /\ locals.index > 0) =>
        /\ Candidates = IF args.size[1] # args.size[2] /\ args.orientation = NoOrientation
                        THEN 2 ELSE 1
        /\ locals.M_options[1] = locals.M
        /\ Candidates = 2 => ColumnsSwapped(locals.M, locals.M_options[2])
        /\ \A j \in 1..Candidates : ~Better(locals.results[j], locals.results[locals.index])
        /\ \A j \in 1..(locals.index - 1) :
               Better(locals.results[locals.index], locals.results[j])
        /\ locals.orientation.M = locals.results[locals.index][3]
        /\ \A axis \in 1..2 :
               locals.orientation.b[axis] =
                   locals.results[locals.index][2][axis] + 2 * ShiftTotal(axis)
        /\ (pc = "done" /\ ret.fault = "none") => ret.value = locals.orientation

\* The first candidate passed parity with the lower score and is returned.
C17_Witness ==
    /\ DetectDone
    /\ Candidates = 2
    /\ locals.results[1][4] /\ ~locals.results[2][4]
    /\ locals.results[2][1] > locals.results[1][1]
    /\ locals.index = 1
    /\ ret.value.M = locals.results[1][3]

\* The parity check ran on the last candidate.
ParityRan ==
    /\ args.fn = "blob_array_detect"
    /\ args.orientation = NoOrientation
    /\ args.orientation_check
    /\ Candidates >= 1
    /\ locals.index = 0

\* The dim-spot flags of a grid of spot powers: at or below the second-lowest.
DimFlags(g) ==
    [j \in 1..Len(g) |-> [i \in 1..Len(g[1]) |->
        g[j][i] <= second_smallest(Ravel(g))]]

\* The corners in the order (last, last), (last, first), (first, first),
\* (first, last).
CornerList(R, C) == << <<R, C>>, <<R, 1>>, <<1, 1>>, <<1, C>> >>

\* The number k of the dim corner of the last grid sampled.
DimCorner ==
    LET flags == DimFlags(locals.spotpowers)
        corner == CornerList(Len(flags), Len(flags[1]))
    IN  (CHOOSE c \in 1..4 : flags[corner[c][1]][corner[c][2]]) - 1

Turned == rot90(DimFlags(locals.spotpowers), DimCorner)

RECURSIVE QuarterTurn(_)
QuarterTurn(k) ==
    IF k = 0 THEN << <<1, 0>>, <<0, 1>> >>
    ELSE MatMul(QuarterTurn(k - 1), << <<0, -1>>, <<1, 0>> >>)

\* C18: where the parity check succeeded with the dim corner being the k-th of
\* the corner list, the flags turned by k quarter turns have the dim corner at
\* (last row, last column) and the second dim spot either at (last row,
\* second-last column), reflection the identity, or at (second-last row, last
\* column), reflection the axis swap; M_fixed = M . Rotation(k * 90) . Reflection.
C18_ParityRotation ==
    (ParityRan /\ LastResult[4]) =>
        LET RR == Len(Turned)
            RC == Len(Turned[1])
        IN  /\ RR >= 2 /\ RC >= 2
            /\ Turned[RR][RC]
            /\ Turned[RR][RC - 1] # Turned[RR - 1][RC]
            /\ LastResult[3] =
                  MatMul(MatMul(LastTrialM, QuarterTurn(DimCorner)),
                         IF Turned[RR][RC - 1]
                         THEN << <<1, 0>>, <<0, 1>> >>
                         ELSE << <<0, 1>>, <<1, 0>> >>)

\* Parity succeeded with the dim corner at (last row, first column) and the
\* axis swap as reflection.
C18_Witness ==
    /\ ParityRan
    /\ LastResult[4]
    /\ DimCorner = 1
    /\ Turned[Len(Turned) - 1][Len(Turned[1])]
    /\ LastResult[3] # LastTrialM

\* The places of the dim spots of a grid, and its corner places.
DimPlaces(g) ==
    {q \in (1..Len(g)) \X (1..Len(g[1])) : DimFlags(g)[q[1]][q[2]]}

CornerPlaces(g) == {<<1, 1>>, <<1, Len(g[1])>>, <<Len(g), 1>>, <<Len(g), Len(g[1])>>}

\* Exactly two dim spots, exactly one of them on a corner, the other next to
\* it along an edge.
ParityOk(g) ==
    /\ Cardinality(DimPlaces(g)) = 2
    /\ Cardinality(DimPlaces(g) \cap CornerPlaces(g)) = 1
    /\ \E q \in DimPlaces(g) \cap CornerPlaces(g) :
         \E o \in DimPlaces(g) \ {q} :
            Abs(q[1] - o[1]) + Abs(q[2] - o[2]) = 1

\* C19: a parity check whose sampling faulted, or that found other than two dim
\* spots, other than one dim corner, or a second dim spot away from the dim
\* corner, does not raise: the candidate keeps M_trial with
\* parity_success=False, and the call goes on to selection and two honing passes.
C19_ParityFailureFallsBack ==
    /\ (ParityRan /\ (locals.spotpowers = <<>> \/ ~ParityOk(locals.spotpowers))) =>
           /\ LastResult[3] = LastTrialM
           /\ LastResult[4] = FALSE
    /\ (args.fn = "blob_array_detect" /\ Candidates >= 1) =>
           /\ locals.hones = 0 => ret.fault = "none"
           /\ pc \in {"trial", "select", "hone", "return", "done"}
           /\ pc = "done" => (locals.index > 0 /\ locals.hones >= 1)

\* Two dim spots, one on a corner, the other not next to it, on the last
\* candidate.
C19_Witness ==
    /\ pc = "select"
    /\ ParityRan
    /\ locals.spotpowers # <<>>
    /\ Cardinality(DimPlaces(locals.spotpowers)) = 2
    /\ Cardinality(DimPlaces(locals.spotpowers) \cap CornerPlaces(locals.spotpowers)) = 1
    /\ ~ParityOk(locals.spotpowers)
    /\ ~LastResult[4]
    /\ LastResult[3] = LastTrialM
    /\ ret.fault = "none"

\* C20: honing only runs after the selection, never more than twice, exactly
\* twice in a call that returns, and the M of the orientation stays the M of the
\* selected candidate through both passes, whatever the shifts.
C20_HonesTwiceAfterSelection ==
    (args.fn = "blob_array_detect") =>
        /\ locals.hones \in 0..2
        /\ ret.fault = "none" => locals.hones = Len(locals.shifts)
        /\ locals.hones > 0 => (locals.index > 0 /\ pc \in {"hone", "return", "done"})
        /\ locals.index > 0 => locals.orientation.M = locals.results[locals.index][3]
        /\ (pc = "done" /\ ret.fault = "none") =>
              /\ locals.hones = 2
              /\ ret.value.M = locals.results[locals.index][3]

\* A call with a prior orientation returned after a first pass that moved b.
C20_Witness ==
    /\ DetectDone
    /\ args.orientation # NoOrientation
    /\ ret.fault = "none"
    /\ locals.hones = 2
    /\ locals.shifts[1] # <<0, 0>>
    /\ ret.value.b # locals.results[locals.index][2]

\* The scoring mask of the candidate the loop handled last.  Its entries are
\* zero but at the places of locals.mask.set.
MaskBuilt == Candidates >= 1 /\ locals.mask # <<>>

MaskAt(at) == IF at \in DOMAIN locals.mask.set THEN locals.mask.set[at] ELSE 0

InMask(at) ==
    /\ 0 <= at[1] /\ at[1] < locals.mask.shape[1]
    /\ 0 <= at[2] /\ at[2] < locals.mask.shape[2]

RECURSIVE MaskSumOver(_)
MaskSumOver(places) ==
    IF places = {} THEN 0
    ELSE LET at == CHOOSE p \in places : TRUE
         IN  MaskAt(at) + MaskSumOver(places \ {at})

MaskSum == MaskSumOver(DOMAIN locals.mask.set)

\* The places <<row, column>> of the padded grid of Nx + 2 by Ny + 2
\* locations; its one-spot border is the first and last row and column of the
\* grid, the Nx by Ny true spots are the rest.
PaddedPlaces ==
    LET pixels == kernel_pixels(LastTrialM, centers(args.size[1] + 2, args.size[2] + 2),
                                locals.mask.shape)
    IN  [q \in 1..Len(pixels) |-> <<pixels[q][2], pixels[q][1]>>]

OnBorder(q) ==
    LET i == ((q - 1) % (args.size[1] + 2)) + 1
        j == ((q - 1) \div (args.size[1] + 2)) + 1
    IN  i = 1 \/ i = args.size[1] + 2 \/ j = 1 \/ j = args.size[2] + 2

Distinct(places) == \A q, r \in DOMAIN places : q # r => places[q] # places[r]

\* C21: the mask before the 8-bit rescaling holds -(Nx*Ny) at each location of
\* the one-spot border, 2*(Nx+Ny)+4, the number of border locations, at each
\* of the Nx*Ny true spot locations and zero elsewhere, and its entries sum to
\* zero whenever the locations of the padded grid are pairwise distinct pixels.
C21_MaskValuesAndZeroSum ==
    MaskBuilt =>
        LET places == PaddedPlaces
            border == {q \in DOMAIN places : OnBorder(q)}
            spots == {q \in DOMAIN places : ~OnBorder(q)}
            Nx == args.size[1]
            Ny == args.size[2]
        IN  /\ Cardinality(border) = 2 * (Nx + Ny) + 4
            /\ Cardinality(spots) = Nx * Ny
            /\ \A q \in DOMAIN places : InMask(places[q])
            /\ \A q \in border : MaskAt(places[q]) = -(Nx * Ny)
            /\ \A q \in spots : MaskAt(places[q]) = 2 * (Nx + Ny) + 4
            /\ \A at \in DOMAIN locals.mask.set :
                  MaskAt(at) # 0 => \E q \in DOMAIN places : places[q] = at
            /\ Distinct(places) => MaskSum = 0

\* C22: for every non-singular M that reaches the honing step, also an M the
\* parity rotation or reflection produced, the window size psf that hone
\* passes to take is an odd integer >= 1.
C22_HoningWindowIsOddAndPositive ==
    (args.fn = "blob_array_detect" /\ locals.hones > 0
        /\ Det(locals.orientation.M) # 0) =>
        /\ locals.psf = hone_psf(locals.orientation.M)
        /\ locals.psf % 2 = 1
        /\ locals.psf >= 1

(***************************************************************************)
(* blob_detect                                                             *)
(*                                                                         *)
(* cv2.SimpleBlobDetector is not modelled: the blobs a run of the detector *)
(* returns are chosen from a small set.  A blob is [pt |-> <<x, y>>,       *)
(* size |-> diameter, response |-> r]; an image is a sequence of rows.     *)
(***************************************************************************)
\* A retry whenever the first run finds fewer than two blobs.
needs_blur_below_two(blobs) == Len(blobs) < 2

\* len(blobs) == 0
needs_blur(blobs) == Len(blobs) = 0

MinOf(S) == CHOOSE v \in S : \A u \in S : v <= u
MaxOf(S) == CHOOSE v \in S : \A u \in S : v >= u

\* _make_8bit: the image scaled to 0..255 and truncated to uint8 (the pixels of
\* a flat image, 0/0, are left at 0).
make_8bit(img) ==
    LET values == {img[y][x] : y \in 1..Len(img), x \in 1..Len(img[1])}
        lo == MinOf(values)
        hi == MaxOf(values) - lo
    IN  [y \in 1..Len(img) |-> [x \in 1..Len(img[1]) |->
            IF hi = 0 THEN 0 ELSE ((img[y][x] - lo) * 255) \div hi]]

RECURSIVE SumInts(_)
SumInts(s) == IF s = <<>> THEN 0 ELSE Head(s) + SumInts(Tail(s))

\* bin_size = int(np.mean([blob.size for blob in blobs]))
bin_size(blobs) == SumInts([i \in 1..Len(blobs) |-> blobs[i].size]) \div Len(blobs)

\* int(blob.pt[axis]) + np.arange(-bin_size, bin_size)
bin_indices(center, bin) == [o \in 1..(2 * bin) |-> center - bin + o - 1]

\* The response given to a blob by the "max_amp" filter: the sum of
\* cv2img[np.ix_(rows, columns)], or 0 when the indexing raises.
max_amp_response(cv2img, blob, bin) ==
    LET rows == bin_indices(blob.pt[2], bin)
        cols == bin_indices(blob.pt[1], bin)
        H == Len(cv2img)
        W == Len(cv2img[1])
    IN  IF \/ \E r \in 1..Len(rows) : ~IndexOk(rows[r], H)
           \/ \E c \in 1..Len(cols) : ~IndexOk(cols[c], W)
        THEN 0
        ELSE SumInts([q \in 1..(Len(rows) * Len(cols)) |->
                 cv2img[WrapIndex(rows[((q - 1) \div Len(cols)) + 1], H) + 1]
                       [WrapIndex(cols[((q - 1) % Len(cols)) + 1], W) + 1]])

\* The blobs with the responses of the "max_amp" filter.
max_amp_blobs(cv2img, blobs) ==
    [i \in 1..Len(blobs) |->
        [blobs[i] EXCEPT !.response = max_amp_response(cv2img, blobs[i], bin_size(blobs))]]

\* 4 * |pt - shape[::-1] / 2|^2
dist_to_center2(blob, H, W) ==
    (2 * blob.pt[1] - W) * (2 * blob.pt[1] - W) + (2 * blob.pt[2] - H) * (2 * blob.pt[2] - H)

\* Lines 676-698: the downselection of the blobs.
blob_filter(cv2img, blobs, filter) ==
    IF filter = "dist_to_center"
    THEN << blobs[argmin([i \in 1..Len(blobs) |->
                    dist_to_center2(blobs[i], Len(cv2img), Len(cv2img[1]))])] >>
    ELSE IF filter = "max_amp"
    THEN LET weighed == max_amp_blobs(cv2img, blobs)
         IN  << weighed[argmax([i \in 1..Len(weighed) |-> weighed[i].response])] >>
    ELSE blobs

(***************************************************************************)
(* The calls of blob_detect that are explored                              *)
(***************************************************************************)
BlobW == 4
BlobH == 3
MaxFound == 2
MaxBlobSize == 2

\* The image handed in: a ramp, every pixel but the first above zero.
BlobImage == [y \in 1..BlobH |-> [x \in 1..BlobW |-> (x - 1) + BlobW * (y - 1)]]

\* The blobs the detector may report: at the corners and next to the first
\* corner, with a detector response of 1.
BlobPoints == {<<0, 0>>, <<1, 1>>, <<BlobW - 1, 0>>, <<BlobW - 1, BlobH - 1>>}

FoundBlobs ==
    {[pt |-> q, size |-> s, response |-> 1] : q \in BlobPoints, s \in 1..MaxBlobSize}

BlobLists ==
    UNION {[1..n -> FoundBlobs] : n \in 0..MaxFound}

BlobLocals == [cv2img |-> <<>>, runs |-> <<>>, blobs |-> <<>>]

NoBlobs == [fault |-> "none", value |-> <<>>]

InitBlob ==
    /\ pc = "detect"
    /\ ret = NoBlobs
    /\ locals = BlobLocals
    /\ \E filter \in {"None", "dist_to_center", "max_amp"}, plot \in BOOLEAN :
          args = [fn |-> "blob_detect", img |-> BlobImage, filter |-> filter,
                  plot |-> plot]

\* Lines 640-662: the detector runs on the 8-bit image.
DetectFirst ==
    /\ pc = "detect"
    /\ \E blobs \in BlobLists :
          /\ locals' = [cv2img |-> make_8bit(args.img),
                        runs |-> <<[on |-> "cv2img", found |-> Len(blobs)]>>,
                        blobs |-> blobs]
          /\ pc' = IF needs_blur(blobs) THEN "blur" ELSE "filter"
    /\ UNCHANGED <<args, ret>>

\* Lines 663-674: the detector runs on the blurred copy.
DetectBlurred ==
    /\ pc = "blur"
    /\ \E blobs \in BlobLists :
          /\ locals' = [locals EXCEPT
                !.runs = Append(@, [on |-> "blurred", found |-> Len(blobs)]),
                !.blobs = blobs]
          /\ IF Len(blobs) = 0
             THEN /\ ret' = [fault |-> "Exception", value |-> <<>>]
                  /\ pc' = "done"
             ELSE /\ pc' = "filter"
                  /\ UNCHANGED ret
    /\ UNCHANGED args

\* Lines 676-714: the downselection, and the return of the blobs.
FilterBlobs ==
    /\ pc = "filter"
    /\ ret' = [fault |-> "none",
               value |-> blob_filter(locals.cv2img, locals.blobs, args.filter)]
    /\ pc' = "done"
    /\ UNCHANGED <<args, locals>>

NextBlob == DetectFirst \/ DetectBlurred \/ FilterBlobs

SpecBlob == InitBlob /\ [][NextBlob]_vars

(***************************************************************************)
(* Properties of blob_detect                                               *)
(***************************************************************************)
BlobDone == pc = "done" /\ args.fn = "blob_detect"

Runs == Len(locals.runs)

\* C14: the detector runs once on the 8-bit image, once more on the blurred
\* copy only when that run found no blob, never more than twice, and the call
\* raises exactly when both runs found none.
C14_DetectorRunsAndRetry ==
    (args.fn = "blob_detect") =>
        /\ Runs <= 2
        /\ Runs >= 1 => locals.runs[1].on = "cv2img"
        /\ Runs = 2 => (locals.runs[1].found = 0 /\ locals.runs[2].on = "blurred")
        /\ pc \in {"filter", "done"} => (Runs = 2 <=> locals.runs[1].found = 0)
        /\ pc = "blur" => (Runs = 1 /\ locals.runs[1].found = 0)
        /\ pc = "done" =>
              (ret.fault # "none" <=>
                  (Runs = 2 /\ locals.runs[1].found = 0 /\ locals.runs[2].found = 0))

\* The first run found nothing and the blurred run found blobs, which are
\* returned.
C14_Witness ==
    /\ BlobDone
    /\ Runs = 2
    /\ locals.runs[2].found > 0
    /\ ret.fault = "none"
    /\ ret.value = locals.blobs

\* The square window of side d around the pixel of a blob reaches past an edge
\* of the image.
WindowPastEdge(blob, d) ==
    LET x0 == blob.pt[1] - (d \div 2)
        y0 == blob.pt[2] - (d \div 2)
    IN  d > 0 /\ (x0 < 0 \/ y0 < 0 \/ x0 + d > BlobW \/ y0 + d > BlobH)

Weighed == max_amp_blobs(locals.cv2img, locals.blobs)

\* C15: with filter="max_amp" every blob whose window (side the mean blob
\* diameter) reaches past an edge of the image gets response zero, and the call
\* returns exactly one blob, one of maximal response.
C15_MaxAmpEdgeIsZero ==
    (BlobDone /\ args.filter = "max_amp" /\ ret.fault = "none") =>
        /\ Len(ret.value) = 1
        /\ \E i \in 1..Len(Weighed) :
              /\ ret.value[1] = Weighed[i]
              /\ \A j \in 1..Len(Weighed) : Weighed[j].response <= Weighed[i].response
        /\ \A i \in 1..Len(Weighed) :
              WindowPastEdge(locals.blobs[i], bin_size(locals.blobs)) =>
                  Weighed[i].response = 0

(***************************************************************************)
(* image_fit                                                               *)
(*                                                                         *)
(* scipy's curve_fit is not modelled: what a call of it does (the error it *)
(* raises, or the parameters it returns) is chosen from a small set.  The  *)
(* result matrix is kept as the sequence of its columns, one per image,    *)
(* each <<r2, parameters...>>; None is the empty sequence.                 *)
(***************************************************************************)
MaxImages == 3
ParamCount == 2

NanParams == [q \in 1..ParamCount |-> NaN]

\* p0 = guess[:, img_idx] if guess is not None else None
fit_p0(guess, img_idx) == IF guess = <<>> THEN <<>> ELSE guess[img_idx]

\* np.any(np.logical_not(np.isfinite(popt)))
any_not_finite(popt) == \E q \in 1..Len(popt) : IsNaN(popt[q])

\* Lines 563-572: the fit succeeded unless curve_fit raised RuntimeError or
\* returned a parameter that is not finite.
fit_succeeded(fit) == fit.raises = "none" /\ ~any_not_finite(fit.popt)

\* Lines 574-583: the column of the result for one image.
fit_column(fit, r2, p0) ==
    IF fit_succeeded(fit)
    THEN <<r2>> \o fit.popt
    ELSE <<NaN>> \o (IF p0 # <<>> THEN p0 ELSE NanParams)

\* What curve_fit may do: return finite parameters, return a parameter that is
\* not finite, or raise: RuntimeError when the least-squares minimization
\* fails, ValueError when the data hold a not-a-number, TypeError when there
\* are fewer pixels than parameters.
FitOutcomes ==
    {[raises |-> "none", popt |-> [q \in 1..ParamCount |-> Num(7)]],
     [raises |-> "none", popt |-> [q \in 1..ParamCount |-> IF q = 1 THEN NaN ELSE Num(7)]]}
    \cup {[raises |-> e, popt |-> <<>>] : e \in {"RuntimeError", "ValueError", "TypeError"}}

\* The guess handed in or constructed: parameter q of image i is 10 * i + q.
GuessArray(image_count) ==
    [i \in 1..image_count |-> [q \in 1..ParamCount |-> Num(10 * i + q)]]

FitLocals == [guess |-> <<>>, fits |-> <<>>, result |-> <<>>]

NoFit == [fault |-> "none", value |-> <<>>]

InitFit ==
    /\ pc = "guess"
    /\ ret = NoFit
    /\ locals = FitLocals
    /\ \E image_count \in 1..MaxImages, function \in {"gaussian2d", "other"},
          given \in BOOLEAN, plot \in BOOLEAN :
          args = [fn |-> "image_fit", image_count |-> image_count,
                  function |-> function,
                  guess |-> IF given THEN GuessArray(image_count) ELSE <<>>,
                  plot |-> plot]

\* Lines 522-553: the guess is constructed for gaussian2d when none is given.
FitGuess ==
    /\ pc = "guess"
    /\ locals' = [locals EXCEPT !.guess =
          IF args.guess = <<>> /\ args.function = "gaussian2d"
          THEN GuessArray(args.image_count)
          ELSE args.guess]
    /\ pc' = "fit"
    /\ UNCHANGED <<args, ret>>

\* Lines 556-602: one pass of the loop over the images.  An error of curve_fit
\* other than RuntimeError leaves the function.
FitImage ==
    /\ pc = "fit"
    /\ LET img_idx == Len(locals.result) + 1
           p0 == fit_p0(locals.guess, img_idx)
       IN  \E fit \in FitOutcomes, r2 \in {Num(0), Num(1)} :
             IF fit.raises \notin {"none", "RuntimeError"}
             THEN /\ locals' = [locals EXCEPT !.fits = Append(@, fit)]
                  /\ ret' = [fault |-> fit.raises, value |-> <<>>]
                  /\ pc' = "done"
             ELSE /\ locals' = [locals EXCEPT
                        !.fits = Append(@, fit),
                        !.result = Append(@, fit_column(fit, r2, p0))]
                  /\ pc' = IF img_idx = args.image_count THEN "return" ELSE "fit"
                  /\ UNCHANGED ret
    /\ UNCHANGED args

\* Line 604: return result
FitReturn ==
    /\ pc = "return"
    /\ ret' = [fault |-> "none", value |-> locals.result]
    /\ pc' = "done"
    /\ UNCHANGED <<args, locals>>

NextFit == FitGuess \/ FitImage \/ FitReturn

SpecFit == InitFit /\ [][NextFit]_vars

(***************************************************************************)
(* Properties of image_fit                                                 *)
(***************************************************************************)
FitDone == pc = "done" /\ args.fn = "image_fit"

\* The fit of an image failed: the optimizer raised, or returned a parameter
\* that is not finite.
FitFailed(fit) == fit.raises # "none" \/ any_not_finite(fit.popt)

\* C16: a failed fit of any image does not abort image_fit: the call returns a
\* column for every image, and the column of a failed image is not-a-number
\* followed by its guess, or by not-a-numbers when there is no guess.
C16_FailedFitDoesNotAbort ==
    (FitDone /\ \E i \in 1..Len(locals.fits) : FitFailed(locals.fits[i])) =>
        /\ ret.fault = "none"
        /\ Len(ret.value) = args.image_count
        /\ \A i \in 1..Len(locals.fits) :
              FitFailed(locals.fits[i]) =>
                  ret.value[i] = <<NaN>> \o (IF locals.guess = <<>> THEN NanParams
                                             ELSE locals.guess[i])

(***************************************************************************)
(* blob_array_detect.hone: one pass in detail                              *)
(*                                                                         *)
(* scipy's filter and the image are not modelled: the place of the largest *)
(* entry that np.argmax finds in the window of a spot is chosen from a     *)
(* small set.  The offsets are whole pixels; their magnitudes and the mean *)
(* of the magnitudes are doubles.  A double d >= 0 is kept as the whole    *)
(* number d * 2^56, written <<high, middle, low>> in base 2^24: every      *)
(* double of a pass over fewer than 8 spots with offsets below 8 pixels is *)
(* such a number (it is 0 or lies in [1/8, 64), where doubles are          *)
(* multiples of 2^-55).                                                    *)
(***************************************************************************)
Digit == Pow(2, 24)

double_zero == <<0, 0, 0>>

\* The exact sum of two such numbers.
digits_add(a, b) ==
    LET low == a[3] + b[3]
        middle == a[2] + b[2] + (low \div Digit)
        high == a[1] + b[1] + (middle \div Digit)
    IN  <<high, middle % Digit, low % Digit>>

\* The exact quotient and remainder of such a number by n, 1 <= n <= 8.
digits_divide(a, n) ==
    LET middle == (a[1] % n) * Digit + a[2]
        low == (middle % n) * Digit + a[3]
    IN  [quotient |-> <<a[1] \div n, middle \div n, low \div n>>, remainder |-> low % n]

RECURSIVE bit_count(_)
bit_count(x) == IF x = 0 THEN 0 ELSE 1 + bit_count(x \div 2)

bit_length(a) ==
    IF a[1] > 0 THEN 48 + bit_count(a[1])
    ELSE IF a[2] > 0 THEN 24 + bit_count(a[2])
    ELSE bit_count(a[3])

\* a > b for doubles
double_greater(a, b) ==
    \/ a[1] > b[1]
    \/ a[1] = b[1] /\ a[2] > b[2]
    \/ a[1] = b[1] /\ a[2] = b[2] /\ a[3] > b[3]

\* The double nearest the number a + (excess / n) * 2^-56, 0 <= excess < n:
\* the 53 leading bits are kept and the rest is rounded to nearest, a tie to
\* the even neighbour (IEEE 754 binary64, the default rounding).
double_round(a, excess, n) ==
    LET dropped == IF bit_length(a) > 53 THEN bit_length(a) - 53 ELSE 0
        ulp == Pow(2, dropped)
        low == a[3] % ulp
        odd == (a[3] \div ulp) % 2 = 1
        down == <<a[1], a[2], a[3] - low>>
        rest == 2 * (low * n + excess)
    IN  IF rest > ulp * n \/ (rest = ulp * n /\ odd)
        THEN digits_add(down, <<0, 0, ulp>>)
        ELSE down

\* a + b of two doubles
double_add(a, b) == double_round(digits_add(a, b), 0, 1)

\* a / n of a double and a count
double_divide(a, n) ==
    LET exact == digits_divide(a, n)
    IN  double_round(exact.quotient, exact.remainder, n)

\* np.sqrt of the double k, k the sum of the squares of two whole offsets:
\* the double nearest the root (0.0, 1.0, 5.830951894845301 and
\* 7.0710678118654755).
double_sqrt(k) ==
    CASE k = 0 -> double_zero
      [] k = 1 -> <<256, 0, 0>>
      [] k = 34 -> <<1492, 12141420, 15263872>>
      [] k = 50 -> <<1810, 3244039, 12759040>>

\* np.add.reduce over fewer than 8 doubles: they are added in order,
\* each sum rounded to a double.
RECURSIVE add_reduce(_, _)
add_reduce(values, count) ==
    IF count = 0 THEN double_zero
    ELSE double_add(add_reduce(values, count - 1), values[count])

\* np.mean(values): the sum divided by the count.
double_mean(values) == double_divide(add_reduce(values, Len(values)), Len(values))

RECURSIVE SumWhere(_, _, _)
SumWhere(values, kept, count) ==
    IF count = 0 THEN 0
    ELSE (IF kept[count] THEN values[count] ELSE 0) + SumWhere(values, kept, count - 1)

\* np.nanmean of whole values of which the ones not kept are not-a-number:
\* not-a-number itself when none is kept.  The quotient is kept exact.
nanmean(values, kept) ==
    Frac(SumWhere(values, kept, Len(values)),
         Cardinality({k \in 1..Len(values) : kept[k]}))

\* Lines 1083-1094: the offsets of the maxima from the middle of the windows,
\* their magnitudes, the mean magnitude, and the spots that are not set to
\* not-a-number.  found[k] = <<column, row>> of the maximum of window k.
hone_filter(found, psf) ==
    LET half == (psf - 1) \div 2
        shift_x == [k \in 1..Len(found) |-> found[k][1] - half]
        shift_y == [k \in 1..Len(found) |-> found[k][2] - half]
        shift_error == [k \in 1..Len(found) |->
                           double_sqrt(shift_x[k] * shift_x[k] + shift_y[k] * shift_y[k])]
        thresh == double_mean(shift_error)
    IN  [shift_x |-> shift_x, shift_y |-> shift_y, shift_error |-> shift_error,
         thresh |-> thresh,
         kept |-> [k \in 1..Len(found) |-> ~double_greater(shift_error[k], thresh)]]

(***************************************************************************)
(* The honing passes that are explored                                     *)
(***************************************************************************)
MaxSpots == 6

\* size = (Nx, Ny): rows of up to MaxSpots spots, and two small grids.
HoneSizes == {<<nx, 1>> : nx \in 1..MaxSpots} \cup {<<2, 2>>, <<3, 2>>}

\* A lattice of pitch 10 pixels, and its turn by 180 degrees about a skewed
\* axis, whose second column has no entry above -4; b in pixels.
HoneOrientations ==
    { [M |-> << <<10, 0>>, <<0, 10>> >>, b |-> <<Num(20), Num(24)>>],
      [M |-> << <<-4, -4>>, <<0, -4>> >>, b |-> <<Num(20), Num(24)>>] }

\* Where the maximum of a window may be found: in the middle, one pixel
\* right of it, 3 right and 5 down of it, and, in a window with not-a-number
\* entries from clipping, at the first of them, the corner.
HoneFinds(psf) ==
    LET half == (psf - 1) \div 2
    IN  {<<half, half>>, <<half + 1, half>>, <<half + 3, half + 5>>, <<0, 0>>}

HoneLocals ==
    [psf |-> 0, found |-> <<>>, shift_x |-> <<>>, shift_y |-> <<>>,
     shift_error |-> <<>>, thresh |-> double_zero, kept |-> <<>>,
     orientation |-> NoOrientation]

InitHone ==
    /\ pc = "take"
    /\ \E size \in HoneSizes, orientation \in HoneOrientations :
          /\ args = [fn |-> "hone", size |-> size, orientation |-> orientation]
          /\ locals = [HoneLocals EXCEPT !.orientation = orientation]
    /\ ret = [fault |-> "none", value |-> NoOrientation]

\* Lines 1066-1088: the window size, the windows of the size[0] * size[1]
\* spots, and the maximum of each.
HoneTake ==
    /\ pc = "take"
    /\ LET psf == hone_psf(locals.orientation.M)
       IN  IF hone_take_fault(psf) # "none"
           THEN /\ locals' = [locals EXCEPT !.psf = psf]
                /\ Raise(hone_take_fault(psf))
           ELSE /\ \E found \in [1..(args.size[1] * args.size[2]) -> HoneFinds(psf)] :
                      locals' = [locals EXCEPT !.psf = psf, !.found = found]
                /\ pc' = "filter"
                /\ UNCHANGED ret
    /\ UNCHANGED args

\* Lines 1083-1094
HoneFilter ==
    /\ pc = "filter"
    /\ LET filtered == hone_filter(locals.found, locals.psf)
       IN  locals' = [locals EXCEPT
              !.shift_x = filtered.shift_x,
              !.shift_y = filtered.shift_y,
              !.shift_error = filtered.shift_error,
              !.thresh = filtered.thresh,
              !.kept = filtered.kept]
    /\ pc' = "update"
    /\ UNCHANGED <<args, ret>>

\* Line 1108: orientation["b"] += [np.nanmean(shift_x), np.nanmean(shift_y)]
HoneUpdate ==
    /\ pc = "update"
    /\ LET b == << RAdd(locals.orientation.b[1], nanmean(locals.shift_x, locals.kept)),
                  RAdd(locals.orientation.b[2], nanmean(locals.shift_y, locals.kept)) >>
       IN  /\ locals' = [locals EXCEPT !.orientation.b = b]
           /\ ret' = [fault |-> "none", value |-> [locals.orientation EXCEPT !.b = b]]
    /\ pc' = "done"
    /\ UNCHANGED args

NextHone == HoneTake \/ HoneFilter \/ HoneUpdate

SpecHone == InitHone /\ [][NextHone]_vars

(***************************************************************************)
(* Properties of the honing pass                                           *)
(***************************************************************************)
\* The pass has measured its spots and applied the outlier filter.
Filtered == args.fn = "hone" /\ pc \in {"update", "done"} /\ locals.kept # <<>>

Spots == 1..Len(locals.found)

\* Spot k has an offset magnitude no other spot is below.
Minimal(k) ==
    \A j \in Spots : ~double_greater(locals.shift_error[k], locals.shift_error[j])

\* C23: in every honing pass over one or more spots at least one spot survives
\* the outlier filter, a spot of minimal offset magnitude always does, and the
\* b of the orientation is a number on both axes after the pass, also when
\* windows held not-a-number entries.
C23_HoneKeepsASpot ==
    Filtered =>
        /\ Len(locals.found) = args.size[1] * args.size[2]
        /\ \E k \in Spots : locals.kept[k]
        /\ \A k \in Spots : Minimal(k) => locals.kept[k]
        /\ pc = "done" =>
              /\ ret.fault = "none"
              /\ ~IsNaN(ret.value.b[1])
              /\ ~IsNaN(ret.value.b[2])

====
